---- MODULE Spec2Model ----
(***************************************************************************)
(* Equipment-list expansion rule engine of gyrinx                          *)
(* (gyrinx/content/models_/expansion.py) and the equipment-list sources    *)
(* of a list fighter (gyrinx/core/tests/test_combined_equipment_lists.py). *)
(*                                                                         *)
(* The content database (rules, expansions, expansion items), the list     *)
(* and the fighter of an evaluation are the state; every public operation  *)
(* is one action that leaves what it returned (or raised) in ret.          *)
(***************************************************************************)
EXTENDS Integers, Sequences, FiniteSets, TLC

VARIABLES
    rules,       \* ContentEquipmentListExpansionRule rows: rule id -> rule
    expansions,  \* ContentEquipmentListExpansion rows: name -> set of rule ids
    items,       \* ContentEquipmentListExpansionItem rows
    input,       \* the ExpansionRuleInputs of the evaluation (list, fighter)
    listFighter, \* a ListFighter: content fighter and optional legacy fighter
    equipmentListItems, \* ContentFighterEquipmentListItem rows
    pageRefs,    \* ContentPageRef rows
    cache,       \* django.core.cache: cache key -> cached rendering
    queryset,    \* the item queryset a caller holds and has not iterated yet
    refCalls,    \* the ref calls in progress: request -> position and locals
    ret          \* what the last operation returned or raised

vars ==
    <<rules, expansions, items, input, listFighter, equipmentListItems,
      pageRefs, cache, queryset, refCalls, ret>>
engineVars == <<rules, expansions, items, input>>
fighterVars == <<listFighter, equipmentListItems>>
refVars == <<pageRefs, cache>>
callVars == <<queryset, refCalls>>

----------------------------------------------------------------------------
(* Bounds.                                                                 *)

MaxAssignments == 1   \* attribute assignments on the list
MaxItems == 2         \* expansion items in the database
MaxCost == 0          \* cost overrides of expansion items range over 0..MaxCost
MaxListCost == 1      \* costs of equipment-list items range over 0..MaxListCost
MaxListItems == 2     \* equipment-list items of the content fighters

----------------------------------------------------------------------------
(* The universe the inputs are drawn from.                                 *)

None == "None"

Houses == {"Delaque", "Goliath"}
Attributes == {"Alignment", "Affiliation"}
AttributeValues == {"Law Abiding", "Outlaw", "Guild"}

\* ContentAttributeValue.attribute: the attribute a value belongs to.
AttributeOf(v) == IF v = "Guild" THEN "Affiliation" ELSE "Alignment"

\* FighterCategoryChoices values; a fighter whose category does not resolve
\* carries the empty string, the empty value of a character field.
Categories == {"LEADER", "CHAMPION"}
Unresolved == ""

\* A ListAttributeAssignment row of the list: a value, active or archived.
Assignments == [attribute_value : AttributeValues, archived : BOOLEAN]

NoList == [present |-> FALSE, content_house |-> None, assignments |-> {}]
Lists ==
    { [present |-> TRUE, content_house |-> h, assignments |-> a] :
        h \in Houses,
        a \in { s \in SUBSET Assignments : Cardinality(s) <= MaxAssignments } }

NoFighter == [present |-> FALSE, category |-> Unresolved]
Fighters == { [present |-> TRUE, category |-> c] : c \in Categories \cup {Unresolved} }

\* ExpansionRuleInputs: list and fighter both default to None.
ExpansionRuleInputs == [list : Lists \cup {NoList}, fighter : Fighters \cup {NoFighter}]

\* The rule rows, as one record shape: the three variants and a row of the
\* polymorphic base class itself.
RuleByAttribute(a, vs) ==
    [kind |-> "attribute", attribute |-> a, attribute_values |-> vs,
     house |-> None, fighter_categories |-> {}]
RuleByHouse(h) ==
    [kind |-> "house", attribute |-> None, attribute_values |-> {},
     house |-> h, fighter_categories |-> {}]
RuleByFighterCategory(cs) ==
    [kind |-> "category", attribute |-> None, attribute_values |-> {},
     house |-> None, fighter_categories |-> cs]

RuleBase ==
    [kind |-> "base", attribute |-> None, attribute_values |-> {},
     house |-> None, fighter_categories |-> {}]

AttributeRules == { RuleByAttribute(a, vs) : a \in Attributes, vs \in SUBSET AttributeValues }
HouseRules == { RuleByHouse(h) : h \in Houses }
CategoryRules == { RuleByFighterCategory(cs) : cs \in SUBSET Categories }
AllRules == AttributeRules \cup HouseRules \cup CategoryRules \cup {RuleBase}

----------------------------------------------------------------------------
(* Results. An operation either returns a value or raises.                 *)

NoError == "none"
AttributeError == "AttributeError"
ValidationError == "ValidationError"
NotImplementedError == "NotImplementedError"
IntegrityError == "IntegrityError"

\* evaluated: whether the operation ran the applicable-expansions query.
Returned(op, arg, v) ==
    [op |-> op, arg |-> arg, raised |-> NoError, value |-> v, evaluated |-> FALSE]
Raised(op, arg, e) ==
    [op |-> op, arg |-> arg, raised |-> e, value |-> None, evaluated |-> FALSE]
Idle == Returned("none", None, None)

----------------------------------------------------------------------------
(* Rule matching.                                                          *)

\* Mutant: the archived filter is dropped.
ListValuesWithArchived(l, attribute) ==
    { a.attribute_value : a \in
        { x \in l.assignments : AttributeOf(x.attribute_value) = attribute } }

\* list_obj.attributes.filter(attribute=self.attribute,
\*                            listattributeassignment__archived=False)
ListValues(l, attribute) ==
    { a.attribute_value : a \in
        { x \in l.assignments : ~x.archived /\ AttributeOf(x.attribute_value) = attribute } }

\* ContentEquipmentListExpansionRuleByAttribute.match
MatchByAttribute(rule, rule_inputs) ==
    IF ~rule_inputs.list.present THEN Raised("match", rule, AttributeError)
    ELSE LET list_values == ListValues(rule_inputs.list, rule.attribute)
             rule_values == rule.attribute_values
         IN  IF list_values = {} THEN Returned("match", rule, FALSE)
             ELSE IF rule_values = {} THEN Returned("match", rule, TRUE)
             ELSE Returned("match", rule, \E list_value \in list_values : list_value \in rule_values)

\* ContentEquipmentListExpansionRuleByHouse.match
MatchByHouse(rule, rule_inputs) ==
    IF ~rule_inputs.list.present THEN Raised("match", rule, AttributeError)
    ELSE Returned("match", rule, rule_inputs.list.content_house = rule.house)

\* ListFighter.get_category(), as the rule engine consumes it.
GetCategory(fighter) == fighter.category

\* Mutant: the category is tested as the query tests it, by containment
\* in the stored choices, without the guard on an unresolved category.
MatchByFighterCategoryContains(rule, rule_inputs) ==
    LET fighter == rule_inputs.fighter
    IN  IF ~fighter.present THEN Returned("match", rule, FALSE)
        ELSE Returned("match", rule,
                      GetCategory(fighter) = Unresolved
                      \/ GetCategory(fighter) \in rule.fighter_categories)

\* ContentEquipmentListExpansionRuleByFighterCategory.match
MatchByFighterCategory(rule, rule_inputs) ==
    LET fighter == rule_inputs.fighter
    IN  IF ~fighter.present THEN Returned("match", rule, FALSE)
        ELSE LET category == GetCategory(fighter)
             IN  IF category = Unresolved THEN Returned("match", rule, FALSE)
                 ELSE Returned("match", rule, category \in rule.fighter_categories)

\* ContentEquipmentListExpansionRule.match: the base class raises.
MatchBase(rule, rule_inputs) == Raised("match", rule, NotImplementedError)

\* rule.match(rule_inputs), dispatched on the rule's variant.
Match(rule, rule_inputs) ==
    CASE rule.kind = "attribute" -> MatchByAttribute(rule, rule_inputs)
      [] rule.kind = "house" -> MatchByHouse(rule, rule_inputs)
      [] rule.kind = "category" -> MatchByFighterCategory(rule, rule_inputs)
      [] rule.kind = "base" -> MatchBase(rule, rule_inputs)

----------------------------------------------------------------------------
(* Expansion applicability.                                                *)

\* The orders in which a queryset without a total ordering may yield rows.
Orders(S) ==
    { s \in [1..Cardinality(S) -> S] : \A i, j \in 1..Cardinality(S) : s[i] = s[j] => i = j }

\* The loop of applies_to over self.rules.all(), rule by rule.
RECURSIVE AppliesToLoop(_, _, _)
AppliesToLoop(name, rule_seq, rule_inputs) ==
    IF rule_seq = <<>> THEN Returned("applies_to", name, TRUE)
    ELSE LET m == Match(rules[Head(rule_seq)], rule_inputs)
         IN  IF m.raised # NoError THEN Raised("applies_to", name, m.raised)
             ELSE IF ~m.value THEN Returned("applies_to", name, FALSE)
             ELSE AppliesToLoop(name, Tail(rule_seq), rule_inputs)

\* List.active_attributes_cached: the list's non-archived assignments.
ActiveAttributesCached(l) == { a \in l.assignments : ~a.archived }

\* fighter_categories__contains: a substring test on the stored,
\* comma-joined choices. No choice value is a substring of another, so a
\* non-empty category is contained iff it is one of the stored choices;
\* the empty string is contained in every stored value.
CategoriesContain(fighter_categories, category) ==
    category = Unresolved \/ category \in fighter_categories

\* list_rules: attribute rules one of whose values is an active value of
\* the list, or house rules for the list's house.
ListRulesQ(rule, input_list) ==
    \/ /\ rule.kind = "attribute"
       /\ \E aa \in ActiveAttributesCached(input_list) :
              aa.attribute_value \in rule.attribute_values
    \/ /\ rule.kind = "house"
       /\ rule.house = input_list.content_house

\* fighter_rules: category rules whose stored choices contain the category.
FighterRulesQ(rule, input_fighter) ==
    /\ rule.kind = "category"
    /\ CategoriesContain(rule.fighter_categories, GetCategory(input_fighter))

\* applicable_rules: the candidate rules of the input.
ApplicableRules(rule_inputs) ==
    { r \in DOMAIN rules :
        IF rule_inputs.fighter.present
        THEN ListRulesQ(rules[r], rule_inputs.list) \/ FighterRulesQ(rules[r], rule_inputs.fighter)
        ELSE ListRulesQ(rules[r], rule_inputs.list) }

\* The two annotations of the expansion query.
MatchedCount(name, applicable_rules) ==
    Cardinality({ r \in expansions[name] : r \in applicable_rules })
TotalCount(name) == Cardinality(expansions[name])

\* Mutant: an expansion passes as soon as one of its rules is a candidate.
ExpansionFilterAnyMatched(name, applicable_rules) ==
    /\ MatchedCount(name, applicable_rules) >= 1
    /\ ~(TotalCount(name) = 0)

\* .filter(matched=F("total")).exclude(total=0)
ExpansionFilter(name, applicable_rules) ==
    /\ MatchedCount(name, applicable_rules) = TotalCount(name)
    /\ ~(TotalCount(name) = 0)

\* ContentEquipmentListExpansion.get_applicable_expansions
GetApplicableExpansions(rule_inputs) ==
    IF ~rule_inputs.list.present
    THEN Raised("get_applicable_expansions", None, AttributeError)
    ELSE LET applicable_rules == ApplicableRules(rule_inputs)
         IN  [Returned("get_applicable_expansions", None,
                       { x \in DOMAIN expansions : ExpansionFilter(x, applicable_rules) })
              EXCEPT !.evaluated = TRUE]

----------------------------------------------------------------------------
(* Expansion items.                                                        *)

Equipment == {"Boltgun", "Lasgun"}
WeaponProfiles == {"Boltgun kraken"}

\* ContentWeaponProfile.equipment: the equipment a profile belongs to.
ProfileEquipment(p) == "Boltgun"

\* The equipment's own cost (cost_cast_int).
CostCastInt(e) == IF e = "Boltgun" THEN 30 ELSE 35

\* cost = models.IntegerField(null=True): the null cost. Overrides range
\* over 0..MaxCost, so the null value is kept apart from them.
NullCost == -1
Costs == (0..MaxCost) \cup {NullCost}

\* Expansion names in the order of Meta.ordering = ["name"].
ExpansionNames == <<"Cult Wargear", "Outlaw Wargear">>
Range(s) == { s[i] : i \in DOMAIN s }
NameRank(n) == CHOOSE i \in DOMAIN ExpansionNames : ExpansionNames[i] = n
EquipmentRank(e) == IF e = "Boltgun" THEN 1 ELSE 2

\* The field values of an item, as passed to a write or to clean().
ExpansionItems ==
    [expansion : Range(ExpansionNames), equipment : Equipment,
     weapon_profile : WeaponProfiles \cup {None}, cost : Costs]

\* A stored row: the field values and, standing for the primary key, the
\* rank of the row among the stored rows with the same field values.
Row(item, n) ==
    [expansion |-> item.expansion, equipment |-> item.equipment,
     weapon_profile |-> item.weapon_profile, cost |-> item.cost, copy |-> n]
Fields(row) ==
    [expansion |-> row.expansion, equipment |-> row.equipment,
     weapon_profile |-> row.weapon_profile, cost |-> row.cost]
Copies(table, item) == Cardinality({ r \in table : Fields(r) = item })

\* INSERT of a row with the field values item.
Insert(table, item) == table \cup {Row(item, Copies(table, item) + 1)}

\* DELETE of a row; rows with the same field values are told apart by
\* their key only, so the one of highest rank leaves the table.
Remove(table, row) == table \ {Row(Fields(row), Copies(table, Fields(row)))}

\* Mutant: the comparison of the profile's equipment is inverted.
CleanInverted(item) ==
    IF item.weapon_profile # None /\ ProfileEquipment(item.weapon_profile) = item.equipment
    THEN [Raised("clean", item, ValidationError) EXCEPT !.value = "weapon_profile"]
    ELSE Returned("clean", item, None)

\* ContentEquipmentListExpansionItem.clean
Clean(item) ==
    IF item.weapon_profile # None /\ ProfileEquipment(item.weapon_profile) # item.equipment
    THEN [Raised("clean", item, ValidationError) EXCEPT !.value = "weapon_profile"]
    ELSE Returned("clean", item, None)

\* unique_together = ["expansion", "equipment", "weapon_profile"]: a null
\* weapon_profile never collides, nulls being distinct.
UniqueTogether(table, item) ==
    \/ item.weapon_profile = None
    \/ ~\E i \in table :
          /\ i.expansion = item.expansion
          /\ i.equipment = item.equipment
          /\ i.weapon_profile = item.weapon_profile

\* A queryset returned by the item query: which pair it was built for and
\* whether exists() saw the pair, that is, whether it is the filter over
\* the applicable expansions or objects.none().
NoQuerySet == [built |-> FALSE, arg |-> <<None, None>>, exists_in_expansion |-> FALSE]
QuerySet(arg, exists_in_expansion) ==
    [built |-> TRUE, arg |-> arg, exists_in_expansion |-> exists_in_expansion]

\* ContentEquipmentListExpansion.get_applicable_expansion_items_for_equipment:
\* exists() reads the item table, get_applicable_expansions reads the list,
\* and the queryset handed back is not evaluated yet.
GetApplicableExpansionItemsForEquipment(rule_inputs, equipment, weapon_profile) ==
    LET op == "get_applicable_expansion_items_for_equipment"
        arg == <<equipment, weapon_profile>>
        exists_in_expansion ==
            \E i \in items : i.equipment = equipment /\ i.weapon_profile = weapon_profile
    IN  IF ~exists_in_expansion
        THEN [ret |-> Returned("QuerySet", arg, None), queryset |-> QuerySet(arg, FALSE)]
        ELSE LET applicable == GetApplicableExpansions(rule_inputs)
             IN  IF applicable.raised # NoError
                 THEN [ret |-> [Raised(op, arg, applicable.raised) EXCEPT !.evaluated = TRUE],
                       queryset |-> NoQuerySet]
                 ELSE [ret |-> [Returned("QuerySet", arg, None) EXCEPT !.evaluated = TRUE],
                       queryset |-> QuerySet(arg, TRUE)]

\* The rows the queryset yields when the caller iterates it: the item table
\* is read again, as it is then.
QuerySetRows(q, rule_inputs) ==
    LET op == "get_applicable_expansion_items_for_equipment"
    IN  IF ~q.exists_in_expansion THEN Returned(op, q.arg, {})
        ELSE [Returned(op, q.arg,
                 { i \in items : /\ i.equipment = q.arg[1]
                                 /\ i.weapon_profile = q.arg[2]
                                 /\ i.expansion \in GetApplicableExpansions(rule_inputs).value })
              EXCEPT !.evaluated = TRUE]

\* The orders in which the nested loops of get_expansion_equipment may
\* visit the items of the applicable expansions: expansions by name, the
\* items of one expansion by equipment name, ties in any order.
ItemOrders(S) ==
    { s \in Orders(S) :
        \A i, j \in DOMAIN s :
            i < j =>
              \/ NameRank(s[i].expansion) < NameRank(s[j].expansion)
              \/ /\ s[i].expansion = s[j].expansion
                 /\ EquipmentRank(s[i].equipment) <= EquipmentRank(s[j].equipment) }

\* d[k] = v on a dictionary.
DictSet(d, k, v) == [x \in DOMAIN d \cup {k} |-> IF x = k THEN v ELSE d[x]]
EmptyDict == [x \in {} |-> NullCost]

\* Mutant: a base cost already collected is kept (first write wins).
EquipmentDataStepFirstWins(equipment_data, item) ==
    LET eq_id == item.equipment
        data == IF eq_id \in DOMAIN equipment_data
                THEN equipment_data
                ELSE DictSet(equipment_data, eq_id, [cost |-> NullCost, profiles |-> EmptyDict])
    IN  IF item.weapon_profile # None
        THEN DictSet(data, eq_id,
                     [data[eq_id] EXCEPT !.profiles = DictSet(@, item.weapon_profile, item.cost)])
        ELSE IF data[eq_id].cost # NullCost THEN data
        ELSE DictSet(data, eq_id, [data[eq_id] EXCEPT !.cost = item.cost])

\* Mutant: only base-level items register their equipment; a profile-level
\* item of an equipment not yet collected is skipped.
EquipmentDataStepBaseOnly(equipment_data, item) ==
    LET eq_id == item.equipment
    IN  IF item.weapon_profile # None
        THEN IF eq_id \in DOMAIN equipment_data
             THEN DictSet(equipment_data, eq_id,
                          [equipment_data[eq_id] EXCEPT
                              !.profiles = DictSet(@, item.weapon_profile, item.cost)])
             ELSE equipment_data
        ELSE LET data == IF eq_id \in DOMAIN equipment_data
                         THEN equipment_data
                         ELSE DictSet(equipment_data, eq_id,
                                      [cost |-> NullCost, profiles |-> EmptyDict])
             IN  DictSet(data, eq_id, [data[eq_id] EXCEPT !.cost = item.cost])

\* One pass of the loop body over an item.
EquipmentDataStep(equipment_data, item) ==
    LET eq_id == item.equipment
        data == IF eq_id \in DOMAIN equipment_data
                THEN equipment_data
                ELSE DictSet(equipment_data, eq_id, [cost |-> NullCost, profiles |-> EmptyDict])
    IN  IF item.weapon_profile # None
        THEN DictSet(data, eq_id,
                     [data[eq_id] EXCEPT !.profiles = DictSet(@, item.weapon_profile, item.cost)])
        ELSE DictSet(data, eq_id, [data[eq_id] EXCEPT !.cost = item.cost])

RECURSIVE EquipmentData(_, _)
EquipmentData(equipment_data, item_seq) ==
    IF item_seq = <<>> THEN equipment_data
    ELSE EquipmentData(EquipmentDataStep(equipment_data, Head(item_seq)), Tail(item_seq))

\* cost_overrides: the equipment whose collected base cost is not None.
CostOverrides(equipment_data) ==
    { eq_id \in DOMAIN equipment_data : equipment_data[eq_id].cost # NullCost }

\* The annotated equipment queryset: one row per collected equipment id.
AnnotatedEquipment(equipment_data) ==
    LET cost_overrides == CostOverrides(equipment_data)
    IN  IF cost_overrides # {}
        THEN { [id |-> eq_id,
                expansion_cost_override |->
                    IF eq_id \in cost_overrides THEN equipment_data[eq_id].cost
                    ELSE CostCastInt(eq_id)] : eq_id \in DOMAIN equipment_data }
        ELSE { [id |-> eq_id, expansion_cost_override |-> CostCastInt(eq_id)] :
                 eq_id \in DOMAIN equipment_data }

\* The items the loops visit: those of the applicable expansions.
ApplicableItems(applicable) == { i \in items : i.expansion \in applicable }

\* ContentEquipmentListExpansion.get_expansion_equipment, the items
\* visited in the order item_seq.
GetExpansionEquipment(rule_inputs, item_seq) ==
    LET op == "get_expansion_equipment"
        expansions_ == GetApplicableExpansions(rule_inputs)
    IN  IF expansions_.raised # NoError
        THEN [Raised(op, None, expansions_.raised) EXCEPT !.evaluated = TRUE]
        ELSE [Returned(op, item_seq, AnnotatedEquipment(EquipmentData(EmptyDict, item_seq)))
              EXCEPT !.evaluated = TRUE]

----------------------------------------------------------------------------
(* Equipment-list sources of a list fighter.                               *)

ContentFighters == {"Hunt Leader", "Legacy Champion", "Ganger"}

NoListFighter == [content_fighter |-> None, legacy_content_fighter |-> None]
ListFighters ==
    [content_fighter : ContentFighters, legacy_content_fighter : ContentFighters \cup {None}]

\* Mutant: the base fighter comes first.
EquipmentListFightersBaseFirst(fighter) ==
    IF fighter.legacy_content_fighter # None
    THEN <<fighter.content_fighter, fighter.legacy_content_fighter>>
    ELSE <<fighter.content_fighter>>

\* ListFighter.equipment_list_fighters
EquipmentListFighters(fighter) ==
    IF fighter.legacy_content_fighter # None
    THEN <<fighter.legacy_content_fighter, fighter.content_fighter>>
    ELSE <<fighter.content_fighter>>

\* ContentFighterEquipmentListItem rows: (fighter, equipment, profile, cost).
EquipmentListItems ==
    [fighter : ContentFighters, equipment : Equipment,
     weapon_profile : {None}, cost : 0..MaxListCost]

----------------------------------------------------------------------------
(* Actions: one per operation.                                             *)

\* rule.match(rule_inputs) on a rule of the database.
MatchRule ==
    /\ \E r \in DOMAIN rules : ret' = Match(rules[r], input)
    /\ UNCHANGED <<engineVars, fighterVars, refVars, callVars>>

\* expansion.applies_to(rule_inputs); the rules come in any order.
AppliesTo ==
    /\ \E x \in DOMAIN expansions :
          \E rule_seq \in Orders(expansions[x]) :
              ret' = AppliesToLoop(x, rule_seq, input)
    /\ UNCHANGED <<engineVars, fighterVars, refVars, callVars>>

\* ContentEquipmentListExpansion.get_applicable_expansions(rule_inputs)
ApplicableExpansions ==
    /\ ret' = GetApplicableExpansions(input)
    /\ UNCHANGED <<engineVars, fighterVars, refVars, callVars>>

\* get_applicable_expansion_items_for_equipment(rule_inputs, equipment, weapon_profile)
ApplicableExpansionItemsForEquipment ==
    /\ ~queryset.built
    /\ \E e \in Equipment, p \in WeaponProfiles \cup {None} :
          LET call == GetApplicableExpansionItemsForEquipment(input, e, p)
          IN  ret' = call.ret /\ queryset' = call.queryset
    /\ UNCHANGED <<engineVars, fighterVars, refVars, refCalls>>

\* The caller iterates the queryset it was handed.
IterateItems ==
    /\ queryset.built
    /\ ret' = QuerySetRows(queryset, input)
    /\ queryset' = NoQuerySet
    /\ UNCHANGED <<engineVars, fighterVars, refVars, refCalls>>

\* get_expansion_equipment(rule_inputs)
ExpansionEquipment ==
    /\ LET applicable == GetApplicableExpansions(input)
           seqs == IF applicable.raised = NoError
                   THEN ItemOrders(ApplicableItems(applicable.value))
                   ELSE {<<>>}
       IN  \E item_seq \in seqs : ret' = GetExpansionEquipment(input, item_seq)
    /\ UNCHANGED <<engineVars, fighterVars, refVars, callVars>>

\* item.clean() on an item with any field values; nothing is stored.
CleanItem ==
    /\ \E item \in ExpansionItems : ret' = Clean(item)
    /\ UNCHANGED <<engineVars, fighterVars, refVars, callVars>>

\* The outcome of writing the field values item into the table: the
\* unique constraint rejects the write, or the row is stored. save() does
\* not call clean().
Write(op, table, item) ==
    IF UniqueTogether(table, item)
    THEN [ret |-> Returned(op, item, None), items |-> Insert(table, item)]
    ELSE [ret |-> Raised(op, item, IntegrityError), items |-> items]

\* ContentEquipmentListExpansionItem.objects.create(...): save() of a new row.
CreateItem ==
    /\ Cardinality(items) < MaxItems
    /\ \E item \in ExpansionItems :
          LET w == Write("create", items, item)
          IN  ret' = w.ret /\ items' = w.items
    /\ UNCHANGED <<rules, expansions, input, fighterVars, refVars, callVars>>

\* save() of a stored row after its cost was changed.
UpdateItem ==
    /\ \E row \in items : \E cost \in Costs \ {row.cost} :
          LET w == Write("save", Remove(items, row), [Fields(row) EXCEPT !.cost = cost])
          IN  ret' = w.ret /\ items' = w.items
    /\ UNCHANGED <<rules, expansions, input, fighterVars, refVars, callVars>>

\* delete() of a stored row.
DeleteItem ==
    /\ \E row \in items :
          /\ items' = Remove(items, row)
          /\ ret' = Returned("delete", None, None)
    /\ UNCHANGED <<rules, expansions, input, fighterVars, refVars, callVars>>

\* The entries of the fighter's equipment-list fighters:
\* ContentFighterEquipmentListItem.objects.filter(fighter__in=...)
SourceItems(fighter) ==
    { i \in equipmentListItems : i.fighter \in Range(EquipmentListFighters(fighter)) }

\* Mutant: only the first equipment-list fighter is queried.
CombinedEquipmentFirstSource(fighter) ==
    { i.equipment : i \in
        { x \in equipmentListItems : x.fighter = EquipmentListFighters(fighter)[1] } }

\* The combined query: the equipment ids of the entries of all sources.
CombinedEquipment(fighter) == { i.equipment : i \in SourceItems(fighter) }

\* The overrides of one (equipment, weapon_profile) key across the sources.
Overrides(fighter, equipment, weapon_profile) ==
    { i \in SourceItems(fighter) :
        i.equipment = equipment /\ i.weapon_profile = weapon_profile }

\* The entries of the first source, in the order given, that has any.
RECURSIVE FirstSourceEntries(_, _)
FirstSourceEntries(sources, overrides) ==
    IF sources = <<>> THEN {}
    ELSE LET own == { o \in overrides : o.fighter = Head(sources) }
         IN  IF own # {} THEN own ELSE FirstSourceEntries(Tail(sources), overrides)

\* Mutant: the sources are consulted base first.
ResolveCostsBaseFirst(fighter, equipment, weapon_profile) ==
    LET entries == FirstSourceEntries(EquipmentListFightersBaseFirst(fighter),
                                      Overrides(fighter, equipment, weapon_profile))
    IN  IF entries = {} THEN {NullCost} ELSE { o.cost : o \in entries }

\* resolve_cost: the costs resolution may select for a key, the sources
\* consulted in the order of equipment_list_fighters; no entry, no cost.
ResolveCosts(fighter, equipment, weapon_profile) ==
    LET entries == FirstSourceEntries(EquipmentListFighters(fighter),
                                      Overrides(fighter, equipment, weapon_profile))
    IN  IF entries = {} THEN {NullCost} ELSE { o.cost : o \in entries }

\* ListFighter.objects.create(content_fighter=..., legacy_content_fighter=...)
CreateListFighter ==
    /\ listFighter = NoListFighter
    /\ listFighter' \in ListFighters
    /\ ret' = Returned("create_list_fighter", None, None)
    /\ UNCHANGED <<engineVars, equipmentListItems, refVars, callVars>>

\* ContentFighterEquipmentListItem.objects.create(fighter=..., equipment=..., cost=...)
CreateEquipmentListItem ==
    /\ Cardinality(equipmentListItems) < MaxListItems
    /\ \E i \in EquipmentListItems :
          /\ i \notin equipmentListItems
          /\ equipmentListItems' = equipmentListItems \cup {i}
    /\ ret' = Returned("create_equipment_list_item", None, None)
    /\ UNCHANGED <<engineVars, listFighter, refVars, callVars>>

\* fighter.equipment_list_fighters
ReadEquipmentListFighters ==
    /\ listFighter # NoListFighter
    /\ ret' = Returned("equipment_list_fighters", listFighter, EquipmentListFighters(listFighter))
    /\ UNCHANGED <<engineVars, fighterVars, refVars, callVars>>

\* The combined equipment query for the fighter.
ReadCombinedEquipment ==
    /\ listFighter # NoListFighter
    /\ ret' = Returned("combined_equipment", listFighter, CombinedEquipment(listFighter))
    /\ UNCHANGED <<engineVars, fighterVars, refVars, callVars>>

\* Cost resolution of (equipment, weapon_profile) for the fighter.
ResolveCost ==
    /\ listFighter # NoListFighter
    /\ \E e \in Equipment :
          \E cost \in ResolveCosts(listFighter, e, None) :
              ret' = Returned("resolve_cost", <<e, None>>, cost)
    /\ UNCHANGED <<engineVars, fighterVars, refVars, callVars>>

----------------------------------------------------------------------------
(* Specifications.                                                         *)

EmptyExpansions == [x \in {} |-> {}]
EmptyRules == [x \in {} |-> RuleByHouse("Delaque")]

----------------------------------------------------------------------------
(* The ref template tag (gyrinx/core/templatetags/custom_tags.py).         *)

\* The positional arguments of a call.
ArgLists == { <<"Spring", "Up">>, <<"Spring Up">> }
\* The category keyword of a call; None and "" are both falsy.
RefCategories == { None, "", "Skills" }
\* The value keyword of a call; None and "" are both falsy.
DisplayValues == { None, "", "Skill", "<i>" }

\* The rows the page-reference table may hold, in query order.
PageRefRows ==
    << [title |-> "Spring Up", category |-> "Rules",  bookref |-> "Core p10"],
       [title |-> "Spring Up", category |-> "Skills", bookref |-> "Core p256"] >>

Falsy(v) == v = None \/ v = ""

\* sep.join(strs)
RECURSIVE Join(_, _)
Join(sep, strs) ==
    IF strs = <<>> THEN ""
    ELSE IF Len(strs) = 1 THEN strs[1]
    ELSE strs[1] \o sep \o Join(sep, Tail(strs))

\* hashlib.sha1(s.encode("utf-8")).hexdigest(), kept symbolic: distinct
\* strings have distinct digests.
Sha1(s) == "sha1(" \o s \o ")"

\* cache_key: the hash of the search text, then that of a truthy category.
CacheKey(search_value, category) ==
    IF Falsy(category) THEN "ref_" \o Sha1(search_value)
    ELSE "ref_" \o Sha1(search_value) \o "_" \o Sha1(category)

\* ContentPageRef.find_similar(search_value, **kwargs)
FindSimilar(search_value, category) ==
    SelectSeq(PageRefRows,
              LAMBDA r : /\ r \in pageRefs
                         /\ r.title = search_value
                         /\ Falsy(category) \/ r.category = category)

\* django.utils.html.conditional_escape on the strings of the model.
Escape(s) == IF s = "<i>" THEN "&lt;i&gt;" ELSE s

\* format_html of the tooltip span.
FormatHtml(ref_str, value) ==
    "<span data-bs-toggle=\"tooltip\" data-bs-title=\"" \o Escape(ref_str)
        \o "\" class=\"tooltipped\">" \o Escape(value) \o "</span>"

\* ref past the cache lookup: the rendering computed from the page refs.
RefRender(search_value, category, value) ==
    LET refs == FindSimilar(search_value, category)
    IN  IF refs = <<>> THEN value
        ELSE FormatHtml(Join(", ", [n \in 1..Len(refs) |-> refs[n].bookref]), value)

\* cache.set(cache_key, rendering)
CacheSet(c, cache_key, rendering) ==
    [k \in DOMAIN c \cup {cache_key} |-> IF k = cache_key THEN rendering ELSE c[k]]

EmptyCache == [k \in {} |-> ""]

\* ref(*args, category=None, value=None) over the cache c: the rendering
\* returned and the cache left behind.
RefTag(c, args, category, value) ==
    LET search_value == Join(" ", args)
        value_ == IF Falsy(value) THEN search_value ELSE value
        cache_key == CacheKey(search_value, category)
    IN  IF cache_key \in DOMAIN c
        THEN [rendering |-> c[cache_key], cache |-> c]
        ELSE LET rendering == RefRender(search_value, category, value_)
             IN  [rendering |-> rendering, cache |-> CacheSet(c, cache_key, rendering)]

NoRefState ==
    /\ pageRefs = {}
    /\ cache = EmptyCache

\* The requests that may be inside ref at once.
Requests == {"A", "B"}

\* The position of a request inside ref and its locals: the search text,
\* the category passed on to the query (None when falsy), the display
\* value after defaulting, and the rendering once computed.
IdleCall ==
    [pc |-> "idle", search_value |-> "", category |-> None, value |-> "", rendering |-> ""]

NoCallState ==
    /\ queryset = NoQuerySet
    /\ refCalls = [r \in Requests |-> IdleCall]

NoFighterState ==
    /\ listFighter = NoListFighter
    /\ equipmentListItems = {}

\* Rule matching: one rule of any variant against any input.
InitRules ==
    /\ rules \in [{"rule"} -> AllRules]
    /\ expansions = EmptyExpansions
    /\ items = {}
    /\ input \in ExpansionRuleInputs
    /\ NoFighterState
    /\ NoRefState
    /\ NoCallState
    /\ ret = Idle
NextRules == MatchRule
SpecRules == InitRules /\ [][NextRules]_vars

\* Expansion applicability: an attribute rule, a house rule, a category
\* rule and a base-class rule; the first expansion bundles any of them, the
\* second has the category rule or no rule at all.
RuleIds == {"ra", "rh", "rc", "rb"}
Init ==
    /\ rules \in { [r \in RuleIds |-> CASE r = "ra" -> a [] r = "rh" -> h [] r = "rc" -> c
                                         [] r = "rb" -> RuleBase] :
                      a \in { RuleByAttribute("Alignment", vs) : vs \in SUBSET AttributeValues },
                      h \in { RuleByHouse("Delaque") },
                      c \in CategoryRules }
    /\ expansions \in { [x \in Range(ExpansionNames) |->
                            IF x = ExpansionNames[1] THEN rs1 ELSE rs2] :
                          rs1 \in SUBSET {"ra", "rh", "rc"} \cup { {"rb"}, {"rh", "rb"} },
                          rs2 \in SUBSET {"rc"} }
    /\ items = {}
    /\ input \in ExpansionRuleInputs
    /\ NoFighterState
    /\ NoRefState
    /\ NoCallState
    /\ ret = Idle
Next == MatchRule \/ AppliesTo \/ ApplicableExpansions
Spec == Init /\ [][Next]_vars

\* Expansion items: the items are written and deleted one by one and read
\* back by the item and equipment queries, on any input: the list absent
\* or of either house with any assignments of the rule's attribute, the
\* fighter absent or of any category. The rules are one of each variant and a base-class rule; the
\* first expansion has the house rule, the second the attribute and
\* category rules or the category rule with the base-class rule.
ItemRuleIds == {"ra", "rh", "rc", "rb"}
ItemRules ==
    [r \in ItemRuleIds |->
        CASE r = "ra" -> RuleByAttribute("Alignment", {"Outlaw"})
          [] r = "rh" -> RuleByHouse("Delaque")
          [] r = "rc" -> RuleByFighterCategory({"LEADER"})
          [] r = "rb" -> RuleBase]
InitItems ==
    /\ rules = ItemRules
    /\ expansions \in { [x \in Range(ExpansionNames) |->
                            IF x = ExpansionNames[1] THEN {"rh"} ELSE rs] :
                          rs \in { {"ra", "rc"}, {"rc", "rb"} } }
    /\ items = {}
    /\ input \in { i \in ExpansionRuleInputs :
                     \A a \in i.list.assignments :
                         AttributeOf(a.attribute_value) = "Alignment" }
    /\ NoFighterState
    /\ NoRefState
    /\ NoCallState
    /\ ret = Idle
NextItems ==
    \/ CreateItem
    \/ DeleteItem
    \/ MatchRule
    \/ ApplicableExpansions
    \/ ApplicableExpansionItemsForEquipment
    \/ IterateItems
    \/ ExpansionEquipment
SpecItems == InitItems /\ [][NextItems]_vars

\* Cost aggregation: the items are written and deleted one by one and read
\* back by get_expansion_equipment. The first expansion has the house rule,
\* the second the house and category rules, the category rule with a
\* base-class rule, or no rule; the list has a house and no attribute
\* values.
InitCosts ==
    /\ rules = ItemRules
    /\ expansions \in { [x \in Range(ExpansionNames) |->
                            IF x = ExpansionNames[1] THEN {"rh"} ELSE rs] :
                          rs \in { {}, {"rh", "rc"}, {"rc", "rb"} } }
    /\ items = {}
    /\ input \in { i \in ExpansionRuleInputs :
                     /\ i.list.present
                     /\ i.list.assignments = {}
                     /\ i.fighter.category # "CHAMPION" }
    /\ NoFighterState
    /\ NoRefState
    /\ NoCallState
    /\ ret = Idle
NextCosts ==
    \/ CreateItem
    \/ DeleteItem
    \/ ApplicableExpansions
    \/ ExpansionEquipment
SpecCosts == InitCosts /\ [][NextCosts]_vars

\* Validation and writes of expansion items: clean() and the writes are
\* separate calls in any interleaving, beside the rule-evaluation
\* operations, for a list of house Delaque or no list and a leader.
InitWrites ==
    /\ rules = [r \in {"rh", "rc"} |->
                  IF r = "rh" THEN RuleByHouse("Delaque")
                  ELSE RuleByFighterCategory({"LEADER"})]
    /\ expansions = [x \in Range(ExpansionNames) |->
                       IF x = ExpansionNames[1] THEN {"rh"} ELSE {"rh", "rc"}]
    /\ items = {}
    /\ input \in { i \in ExpansionRuleInputs :
                     /\ i.list.assignments = {}
                     /\ i.list.content_house # "Goliath"
                     /\ i.fighter.category = "LEADER" }
    /\ NoFighterState
    /\ NoRefState
    /\ NoCallState
    /\ ret = Idle
NextWrites ==
    \/ CleanItem
    \/ CreateItem
    \/ UpdateItem
    \/ DeleteItem
    \/ MatchRule
    \/ AppliesTo
    \/ ApplicableExpansions
    \/ ExpansionEquipment
SpecWrites == InitWrites /\ [][NextWrites]_vars

\* Equipment-list sources of a list fighter.
InitFighters ==
    /\ rules = EmptyRules
    /\ expansions = EmptyExpansions
    /\ items = {}
    /\ input = [list |-> NoList, fighter |-> NoFighter]
    /\ NoFighterState
    /\ NoRefState
    /\ NoCallState
    /\ ret = Idle
NextFighters ==
    \/ CreateListFighter
    \/ CreateEquipmentListItem
    \/ ReadEquipmentListFighters
    \/ ReadCombinedEquipment
    \/ ResolveCost
SpecFighters == InitFighters /\ [][NextFighters]_vars

\* What a ref call leaves in ret: its search text, category and display
\* value, and what it returned.
RefReturned(call, rendering) ==
    Returned("ref",
             [search_value |-> call.search_value, category |-> call.category,
              value |-> call.value],
             rendering)

\* ref up to cache.has_key(cache_key): the locals are computed and the
\* cache is asked whether it holds the key.
RefHasKey ==
    /\ \E r \in Requests, args \in ArgLists, category \in RefCategories, value \in DisplayValues :
          LET search_value == Join(" ", args)
              call == [IdleCall EXCEPT
                          !.search_value = search_value,
                          !.category = IF Falsy(category) THEN None ELSE category,
                          !.value = IF Falsy(value) THEN search_value ELSE value]
          IN  /\ refCalls[r].pc = "idle"
              /\ refCalls' = [refCalls EXCEPT ![r] =
                    [call EXCEPT !.pc = IF CacheKey(search_value, category) \in DOMAIN cache
                                        THEN "get" ELSE "find_similar"]]
    /\ UNCHANGED <<engineVars, fighterVars, refVars, queryset, ret>>

\* return cache.get(cache_key): None when the entry is gone by now.
RefGet ==
    /\ \E r \in Requests :
          LET call == refCalls[r]
              cache_key == CacheKey(call.search_value, call.category)
          IN  /\ call.pc = "get"
              /\ ret' = RefReturned(call, IF cache_key \in DOMAIN cache
                                           THEN cache[cache_key] ELSE None)
              /\ refCalls' = [refCalls EXCEPT ![r] = IdleCall]
    /\ UNCHANGED <<engineVars, fighterVars, refVars, queryset>>

\* ContentPageRef.find_similar and the rendering of its result.
RefFindSimilar ==
    /\ \E r \in Requests :
          LET call == refCalls[r]
          IN  /\ call.pc = "find_similar"
              /\ refCalls' = [refCalls EXCEPT ![r] =
                    [call EXCEPT !.pc = "set",
                                 !.rendering = RefRender(call.search_value, call.category,
                                                         call.value)]]
    /\ UNCHANGED <<engineVars, fighterVars, refVars, queryset, ret>>

\* cache.set(cache_key, rendering) and the return of the rendering.
RefSet ==
    /\ \E r \in Requests :
          LET call == refCalls[r]
          IN  /\ call.pc = "set"
              /\ cache' = CacheSet(cache, CacheKey(call.search_value, call.category),
                                    call.rendering)
              /\ ret' = RefReturned(call, call.rendering)
              /\ refCalls' = [refCalls EXCEPT ![r] = IdleCall]
    /\ UNCHANGED <<engineVars, fighterVars, pageRefs, queryset>>

\* The cache backend drops an entry: cache.set passes no timeout, so every
\* entry expires under the backend's default, or is evicted.
CacheExpire ==
    /\ \E cache_key \in DOMAIN cache :
          cache' = [k \in DOMAIN cache \ {cache_key} |-> cache[k]]
    /\ UNCHANGED <<engineVars, fighterVars, pageRefs, callVars, ret>>

InitRef ==
    /\ rules = EmptyRules
    /\ expansions = EmptyExpansions
    /\ items = {}
    /\ input = [list |-> NoList, fighter |-> NoFighter]
    /\ NoFighterState
    /\ pageRefs \in SUBSET Range(PageRefRows)
    /\ cache = EmptyCache
    /\ NoCallState
    /\ ret = Idle
NextRef ==
    \/ RefHasKey
    \/ RefGet
    \/ RefFindSimilar
    \/ RefSet
    \/ CacheExpire
SpecRef == InitRef /\ [][NextRef]_vars

----------------------------------------------------------------------------
(* Properties.                                                             *)

\* rule.match returns true on the input.
Matches(r) ==
    LET m == Match(rules[r], input)
    IN  m.raised = NoError /\ m.value

\* C1: applies_to returns true iff every rule of the expansion matches the
\* input, and false whenever the expansion has no rule.
C1_AppliesToIffAllRulesMatch ==
    (ret.op = "applies_to" /\ ret.raised = NoError /\ input.list.present) =>
        ret.value = (/\ expansions[ret.arg] # {}
                     /\ \A r \in expansions[ret.arg] : Matches(r))

\* C2: on a well-formed input, get_applicable_expansions returns exactly
\* the expansions that have a rule and all of whose rules match.
C2_ApplicableIffAllRulesMatch ==
    (ret.op = "get_applicable_expansions" /\ input.list.present) =>
        /\ ret.raised = NoError
        /\ ret.value = { x \in DOMAIN expansions :
                            /\ expansions[x] # {}
                            /\ \A r \in expansions[x] : Matches(r) }

\* C3: get_applicable_expansions returns an expansion only if it has a
\* rule and every one of its own rules is a candidate rule of the input.
C3_OnlyOwnRulesAllCandidates ==
    (ret.op = "get_applicable_expansions" /\ ret.raised = NoError) =>
        \A x \in ret.value :
            /\ expansions[x] # {}
            /\ \A r \in expansions[x] : r \in ApplicableRules(input)

\* C3 witness: the first expansion has rules {ra, rh}, ra is a candidate
\* and rh is not, the unrelated rule rc is a candidate and brings the
\* second expansion in; the first one is not returned.
C3_Witness ==
    /\ ret.op = "get_applicable_expansions"
    /\ ret.raised = NoError
    /\ expansions[ExpansionNames[1]] = {"ra", "rh"}
    /\ "ra" \in ApplicableRules(input)
    /\ "rh" \notin ApplicableRules(input)
    /\ "rc" \in ApplicableRules(input)
    /\ ret.value = {ExpansionNames[2]}

\* The list's active assignments for an attribute.
ActiveFor(attribute) ==
    { a \in input.list.assignments :
        ~a.archived /\ AttributeOf(a.attribute_value) = attribute }

\* C4: an attribute rule matches iff the list has an active value for the
\* rule's attribute and the allowed values are empty or hold one of the
\* list's active values for that attribute.
C4_AttributeRuleMatch ==
    (ret.op = "match" /\ ret.arg.kind = "attribute" /\ input.list.present) =>
        /\ ret.raised = NoError
        /\ ret.value =
              (/\ ActiveFor(ret.arg.attribute) # {}
               /\ \/ ret.arg.attribute_values = {}
                  \/ \E a \in ActiveFor(ret.arg.attribute) :
                        a.attribute_value \in ret.arg.attribute_values)

\* C4 witness: the allowed values are empty, the list's only value for the
\* attribute is archived, and match returned false.
C4_Witness ==
    /\ ret.op = "match"
    /\ ret.arg.kind = "attribute"
    /\ ret.arg.attribute_values = {}
    /\ \E a \in input.list.assignments :
          a.archived /\ AttributeOf(a.attribute_value) = ret.arg.attribute
    /\ ret.raised = NoError
    /\ ret.value = FALSE

\* C5: a fighter-category rule matches iff a fighter is present, its
\* category resolves and is one of the rule's categories; it never raises.
C5_FighterCategoryRuleMatch ==
    (ret.op = "match" /\ ret.arg.kind = "category") =>
        /\ ret.raised = NoError
        /\ ret.value =
              (/\ input.fighter.present
               /\ input.fighter.category # Unresolved
               /\ input.fighter.category \in ret.arg.fighter_categories)

\* C5 witness: a fighter with an unresolved category against a rule with
\* categories, list absent: match returned false.
C5_Witness ==
    /\ ret.op = "match"
    /\ ret.arg.kind = "category"
    /\ ret.arg.fighter_categories = Categories
    /\ input.fighter.present
    /\ input.fighter.category = Unresolved
    /\ ~input.list.present
    /\ ret.raised = NoError
    /\ ret.value = FALSE

\* The items that reference an (equipment, weapon_profile) pair.
ItemsOfPair(pair) ==
    { i \in items : i.equipment = pair[1] /\ i.weapon_profile = pair[2] }

\* What the full evaluation of the item query yields: the final filter
\* over get_applicable_expansions, without the early return.
FullEvaluation(rule_inputs, pair) ==
    LET applicable == GetApplicableExpansions(rule_inputs)
    IN  IF applicable.raised # NoError
        THEN [raised |-> applicable.raised, value |-> None]
        ELSE [raised |-> NoError,
              value |-> { i \in ItemsOfPair(pair) : i.expansion \in applicable.value }]

\* C6: on every input, the item query returns exactly the items of the
\* requested pair whose expansion is in get_applicable_expansions; when no
\* item references the pair it yields what the full evaluation would have
\* yielded, without running the expansion query.
C6_ItemsOfApplicableExpansions ==
    ret.op = "get_applicable_expansion_items_for_equipment" =>
        LET full == FullEvaluation(input, ret.arg)
        IN  /\ ret.raised = full.raised
            /\ ret.raised = NoError => ret.value = full.value
            /\ ItemsOfPair(ret.arg) = {} => ~ret.evaluated

\* The base-level items with a cost among the visited items, per equipment.
BaseOverrides(item_seq, eq_id) ==
    { i \in Range(item_seq) :
        i.equipment = eq_id /\ i.weapon_profile = None /\ i.cost # NullCost }

\* C7 as claimed: the effective cost is the override of a base-level item
\* with a cost whenever one exists in an applicable expansion, and the
\* equipment's own cost otherwise.
C7_OverrideWheneverOneExists ==
    (ret.op = "get_expansion_equipment" /\ ret.raised = NoError) =>
        \A row \in ret.value :
            IF BaseOverrides(ret.arg, row.id) # {}
            THEN \E i \in BaseOverrides(ret.arg, row.id) :
                    row.expansion_cost_override = i.cost
            ELSE row.expansion_cost_override = CostCastInt(row.id)

\* The positions of the base-level items of an equipment among the
\* visited items.
BasePositions(item_seq, eq_id) ==
    { k \in DOMAIN item_seq :
        item_seq[k].equipment = eq_id /\ item_seq[k].weapon_profile = None }
Last(S) == CHOOSE k \in S : \A j \in S : j <= k

\* C7 as amended: the effective cost is the cost of the base-level item
\* visited last when that cost is not null, and the equipment's own cost
\* otherwise (no base-level item, or the last one has a null cost).
C7_LastBaseItemDecides ==
    (ret.op = "get_expansion_equipment" /\ ret.raised = NoError) =>
        \A row \in ret.value :
            LET positions == BasePositions(ret.arg, row.id)
            IN  IF positions # {} /\ ret.arg[Last(positions)].cost # NullCost
                THEN row.expansion_cost_override = ret.arg[Last(positions)].cost
                ELSE row.expansion_cost_override = CostCastInt(row.id)

\* C7 witness: two applicable expansions hold a base-level item for the
\* same equipment, the first with a cost and the last with none, and the
\* equipment comes out at its own cost.
C7_Witness ==
    /\ ret.op = "get_expansion_equipment"
    /\ ret.raised = NoError
    /\ Len(ret.arg) = 2
    /\ ret.arg[1].expansion # ret.arg[2].expansion
    /\ \E row \in ret.value :
          LET positions == BasePositions(ret.arg, row.id)
          IN  /\ BaseOverrides(ret.arg, row.id) # {}
              /\ ret.arg[Last(positions)].cost = NullCost
              /\ row.expansion_cost_override = CostCastInt(row.id)

\* C8: the result of get_expansion_equipment carries, beside each
\* equipment, the cost override of each visited profile-level item, keyed
\* by its weapon profile.
C8_ProfileOverridesExposed ==
    (ret.op = "get_expansion_equipment" /\ ret.raised = NoError) =>
        \A i \in Range(ret.arg) :
            (i.weapon_profile # None /\ i.cost # NullCost) =>
                \E row \in ret.value :
                    /\ row.id = i.equipment
                    /\ "profiles" \in DOMAIN row
                    /\ i.weapon_profile \in DOMAIN row.profiles

\* C9: clean raises a validation error on weapon_profile iff a profile is
\* set and belongs to another equipment; no other operation raises it.
C9_CleanRejectsForeignProfile ==
    /\ ret.op = "clean" =>
          LET foreign == /\ ret.arg.weapon_profile # None
                         /\ ProfileEquipment(ret.arg.weapon_profile) # ret.arg.equipment
          IN  /\ foreign => ret.raised = ValidationError /\ ret.value = "weapon_profile"
              /\ ~foreign => ret.raised = NoError
    /\ ret.op # "clean" => ret.raised # ValidationError

\* C9 witness: clean rejected an item with a profile of another equipment,
\* field values that a write without validation had stored.
C9_Witness ==
    /\ ret.op = "clean"
    /\ ret.arg.weapon_profile # None
    /\ ProfileEquipment(ret.arg.weapon_profile) # ret.arg.equipment
    /\ ret.raised = ValidationError
    /\ \E row \in items : Fields(row) = ret.arg

\* C10: equipment_list_fighters is [legacy, own content fighter] for a
\* fighter with a legacy and [own content fighter] for one without.
C10_LegacyFirstThenBase ==
    ret.op = "equipment_list_fighters" =>
        IF ret.arg.legacy_content_fighter # None
        THEN /\ Len(ret.value) = 2
             /\ ret.value[1] = ret.arg.legacy_content_fighter
             /\ ret.value[2] = ret.arg.content_fighter
        ELSE /\ Len(ret.value) = 1
             /\ ret.value[1] = ret.arg.content_fighter

\* C10 witness: a fighter with a legacy other than its own content
\* fighter was asked for its equipment-list fighters.
C10_Witness ==
    /\ ret.op = "equipment_list_fighters"
    /\ ret.arg.legacy_content_fighter # None
    /\ ret.arg.legacy_content_fighter # ret.arg.content_fighter
    /\ Len(ret.value) = 2

\* The entries of one content fighter for a key.
EntriesOf(content_fighter, key) ==
    { i \in equipmentListItems :
        /\ i.fighter = content_fighter
        /\ i.equipment = key[1]
        /\ i.weapon_profile = key[2] }

\* C11: when the legacy fighter has an entry for the key, resolution
\* selects a legacy entry's cost, whatever the base fighter lists; without
\* a legacy fighter only the base fighter's entries apply.
C11_LegacyCostTakesPrecedence ==
    ret.op = "resolve_cost" =>
        LET legacy == EntriesOf(listFighter.legacy_content_fighter, ret.arg)
            base == EntriesOf(listFighter.content_fighter, ret.arg)
        IN  /\ (listFighter.legacy_content_fighter # None /\ legacy # {}) =>
                  \E o \in legacy : ret.value = o.cost
            /\ listFighter.legacy_content_fighter = None =>
                  IF base # {} THEN \E o \in base : ret.value = o.cost
                  ELSE ret.value = NullCost

\* C11 witness: legacy and base both list the key, at different costs,
\* and the legacy cost was selected.
C11_Witness ==
    /\ ret.op = "resolve_cost"
    /\ listFighter.legacy_content_fighter # None
    /\ listFighter.legacy_content_fighter # listFighter.content_fighter
    /\ \E l \in EntriesOf(listFighter.legacy_content_fighter, ret.arg) :
          \E b \in EntriesOf(listFighter.content_fighter, ret.arg) :
              l.cost # b.cost /\ ret.value = l.cost

\* C12: an equipment is in the fighter's combined equipment list iff the
\* base fighter or the legacy fighter, if any, has an entry for it.
C12_UnionOfLegacyAndBase ==
    ret.op = "combined_equipment" =>
        \A e \in Equipment :
            e \in ret.value <=>
                \/ \E i \in equipmentListItems :
                      i.fighter = ret.arg.content_fighter /\ i.equipment = e
                \/ /\ ret.arg.legacy_content_fighter # None
                   /\ \E i \in equipmentListItems :
                         i.fighter = ret.arg.legacy_content_fighter /\ i.equipment = e

\* C12 witness: one equipment is listed only on the base fighter, another
\* only on the legacy fighter, and both are in the combined list.
C12_Witness ==
    /\ ret.op = "combined_equipment"
    /\ ret.arg.legacy_content_fighter # None
    /\ ret.arg.legacy_content_fighter # ret.arg.content_fighter
    /\ \E b, l \in equipmentListItems :
          /\ b.fighter = ret.arg.content_fighter
          /\ l.fighter = ret.arg.legacy_content_fighter
          /\ b.equipment # l.equipment
          /\ ret.value = {b.equipment, l.equipment}

EvaluationOps ==
    {"match", "get_applicable_expansions",
     "get_applicable_expansion_items_for_equipment", "get_expansion_equipment"}

\* No expansion has rules that are all candidates for the input.
NoExpansionApplies ==
    \A x \in DOMAIN expansions :
        expansions[x] = {} \/ \E r \in expansions[x] : r \notin ApplicableRules(input)

\* C13: with a list present, the expansion queries and every rule's match
\* return without raising, whatever the fighter; when no expansion applies
\* the queries return an empty collection.
C13_NoRaiseWithList ==
    (input.list.present /\ ret.op \in EvaluationOps) =>
        /\ ret.raised = NoError
        /\ (ret.op # "match" /\ NoExpansionApplies) => ret.value = {}
        /\ ret.op = "match" => ret.value \in BOOLEAN

PublicOps ==
    {"applies_to", "get_applicable_expansions",
     "get_applicable_expansion_items_for_equipment", "get_expansion_equipment"}

\* C14: when the input has no list, every public evaluation operation
\* fails with an error instead of returning a result.
C14_NoListFailsFast ==
    (~input.list.present /\ ret.op \in PublicOps) => ret.raised # NoError

\* The items of the expansions applicable to the current input.
ItemsOfApplicable == ApplicableItems(GetApplicableExpansions(input).value)

\* C15: the result of get_expansion_equipment holds an equipment exactly
\* when an item of an applicable expansion references it, and holds each
\* such equipment once.
C15_EquipmentIffReferencedOnce ==
    (ret.op = "get_expansion_equipment" /\ ret.raised = NoError) =>
        /\ \A e \in Equipment :
               (\E row \in ret.value : row.id = e)
                   <=> (\E i \in ItemsOfApplicable : i.equipment = e)
        /\ \A row1, row2 \in ret.value : row1.id = row2.id => row1 = row2

\* C15 witness: two items of applicable expansions reference one equipment,
\* the other equipment is referenced by none, and the result is one row.
C15_Witness ==
    /\ ret.op = "get_expansion_equipment"
    /\ ret.raised = NoError
    /\ \E e \in Equipment :
          /\ Cardinality({ i \in ItemsOfApplicable : i.equipment = e }) = 2
          /\ { row.id : row \in ret.value } = {e}
          /\ Cardinality(ret.value) = 1

\* C16: whatever ref calls came before, a ref call returns what it would
\* return over an empty cache: its result is determined by its own search
\* text, category and display value.
C16_RefIndependentOfEarlierCalls ==
    ret.op = "ref" =>
        ret.value = RefTag(EmptyCache, <<ret.arg.search_value>>, ret.arg.category,
                           ret.arg.value).rendering

====
